---- MODULE Spec2Model ----
(***************************************************************************)
(* Model of saadazhar1/stock_analysis: the yearly return classifier and    *)
(* rolling returns of sp500_analyzer.py, and the weekly performance        *)
(* summarizer and batch loop of stock_analyzer.py.                         *)
(*                                                                         *)
(* A price table is a sequence of rows [date, close], dates being day      *)
(* numbers of a model calendar.  A pandas Series is a sequence of          *)
(* [label, value]; a value is NaN (the empty tuple) or <<v>>.  Percent     *)
(* changes are exact fractions [num, den] with den > 0.                    *)
(***************************************************************************)
EXTENDS Integers, Sequences, FiniteSets

VARIABLES
    data,               \* the table returned by the data source
    fill_method,        \* pct_change's default fill_method of the installed pandas
    pc,                 \* position of the running function
    yearly_data,        \* analyze_yearly_returns: resampled year-end closes
    returns_pct,        \* analyze_yearly_returns: yearly returns in percent
    down_years,         \* analyze_yearly_returns: returns_pct[down_mask]
    no_return_years,    \* analyze_yearly_returns: returns_pct[no_return_mask]
    good_return_years,  \* analyze_yearly_returns: returns_pct[good_return_mask]
    return_value,       \* get_return_category: its argument
    category,           \* get_return_category: its result
    mask_category,      \* the masks of analyze_yearly_returns selecting return_value
    period,             \* analyze_rolling_returns: the window in years
    day_index,          \* analyze_rolling_returns: position in the rolling series
    rolling_return,     \* analyze_rolling_returns: rolling_returns[period] there
    ticker,             \* analyze_stock: its argument
    result,             \* analyze_stock: what it returned
    tickers,            \* stock_analyzer.main: the tickers to analyze
    calls,              \* stock_analyzer.main: the analyze_stock calls made so far
    results             \* stock_analyzer.main: the statistics collected

vars == <<data, fill_method, pc, yearly_data, returns_pct, down_years,
          no_return_years, good_return_years, return_value, category,
          mask_category, period, day_index, rolling_return, ticker, result,
          tickers, calls, results>>

----------------------------------------------------------------------------
(* Bounds of the model. *)

\* Calendar years a yearly input may span.
NumYears == 4
\* Dates the model calendar has in one year.
DaysPerYear == 2
\* Rows of a yearly input table.
MaxYearRows == 3

\* Calendar weeks a stock's table may span.
NumWeeks == 3
\* Dates the model calendar has in one week, the last being its Friday.
DaysPerWeek == 2
\* Rows of a stock's table.
MaxStockRows == 3
\* Days a rolling-return input has beyond the longest window.
MaxExtraDays == 1

\* Closes of a yearly input: 103/100 - 1 = 3%, 106/100 - 1 = 6%, 100/106 - 1 < 0.
IndexPrices == {100, 103, 106}

----------------------------------------------------------------------------
(* Values. *)

NaN == <<>>

None == <<>>

Max(S) == CHOOSE x \in S : \A y \in S : y <= x

Min(S) == CHOOSE x \in S : \A y \in S : x <= y

\* The default of pct_change's fill_method: forward fill up to pandas 2.x
\* (deprecated since 2.1), no fill from pandas 3.
FillMethods == {"pad", "none"}

\* The tables a data source can return: at most n rows over the given dates
\* and closes, dates ascending (strictly, or with repeated timestamps).
RECURSIVE Tables(_, _, _, _)
Tables(n, dates, prices, strict) ==
    IF n = 0 THEN {<<>>}
    ELSE LET shorter == Tables(n - 1, dates, prices, strict)
             longest == {s \in shorter : Len(s) = n - 1}
             rows    == [date : dates, close : prices]
             fits(s, r) == \/ Len(s) = 0
                           \/ s[Len(s)].date < r.date
                           \/ (~strict /\ s[Len(s)].date = r.date)
         IN  shorter \cup
             {Append(p[1], p[2]) : p \in {q \in longest \X rows : fits(q[1], q[2])}}

----------------------------------------------------------------------------
(* pandas operations used by both analyzers. *)

\* Series.resample(rule).last() for a rule of period_days dates: one bin per
\* period from the first to the last period of the index, holding the last row
\* of the bin, NaN for an empty bin.
ResampleLast(tbl, period_days) ==
    IF Len(tbl) = 0 THEN <<>>
    ELSE LET PeriodOf(d) == d \div period_days
             periods == {PeriodOf(tbl[i].date) : i \in 1..Len(tbl)}
             first   == Min(periods)
             last    == Max(periods)
         IN  [k \in 1..(last - first + 1) |->
                LET p  == first + k - 1
                    bin == {i \in 1..Len(tbl) : PeriodOf(tbl[i].date) = p}
                IN  [label |-> p,
                     value |-> IF bin = {} THEN NaN ELSE <<tbl[Max(bin)].close>>]]

\* Series.ffill(): a NaN takes the last value before it.
ffill(s) ==
    [k \in 1..Len(s) |->
        LET seen == {i \in 1..k : s[i].value # NaN}
        IN  [label |-> s[k].label,
             value |-> IF seen = {} THEN NaN ELSE s[Max(seen)].value]]

\* Series.pct_change(): value_t / value_{t-1} - 1 as the fraction
\* (value_t - value_{t-1}) / value_{t-1}, NaN at the first entry and wherever an
\* operand is NaN; with fill_method 'pad' the series is forward filled first.
pct_change(s, fill) ==
    LET d == IF fill = "pad" THEN ffill(s) ELSE s
    IN  [k \in 1..Len(s) |->
            [label |-> s[k].label,
             value |-> IF k = 1 \/ d[k].value = NaN \/ d[k - 1].value = NaN
                       THEN NaN
                       ELSE <<[num |-> d[k].value[1] - d[k - 1].value[1],
                               den |-> d[k - 1].value[1]]>>]]

\* Series.dropna()
dropna(s) == SelectSeq(s, LAMBDA e : e.value # NaN)

\* series * k
Times(s, k) ==
    [i \in 1..Len(s) |->
        [label |-> s[i].label,
         value |-> <<[num |-> k * s[i].value[1].num, den |-> s[i].value[1].den]>>]]

\* fraction < k and fraction >= k, for a fraction with a positive denominator
Lt(r, k) == r.num < k * r.den

Ge(r, k) == r.num >= k * r.den

----------------------------------------------------------------------------
(* sp500_analyzer.py: yearly returns. *)

YearOf(d) == d \div DaysPerYear

YearDates == 0..(NumYears * DaysPerYear - 1)

\* data['Close'].resample('YE').last()
resample_YE(tbl) == ResampleLast(tbl, DaysPerYear)

\* returns_pct = yearly_data.pct_change().dropna() * 100
yearly_returns_pct(yearly, fill) == Times(dropna(pct_change(yearly, fill)), 100)

down_mask(r) == Lt(r, 0)

\* Mutant of no_return_mask: the upper threshold included.
no_return_mask_closed(r) == Ge(r, 0) /\ r.num <= 6 * r.den

no_return_mask(r) == Ge(r, 0) /\ Lt(r, 6)

good_return_mask(r) == Ge(r, 6)

\* returns_pct[mask].dropna()
down_years_of(returns) ==
    dropna(SelectSeq(returns, LAMBDA e : down_mask(e.value[1])))

no_return_years_of(returns) ==
    dropna(SelectSeq(returns, LAMBDA e : no_return_mask(e.value[1])))

good_return_years_of(returns) ==
    dropna(SelectSeq(returns, LAMBDA e : good_return_mask(e.value[1])))

\* Mutant of get_return_category: exactly 6% still counted as no return.
get_return_category_closed(r) ==
    IF Lt(r, 0) THEN "Down Year"
    ELSE IF r.num <= 6 * r.den THEN "No Return"
    ELSE "Good Return"

get_return_category(r) ==
    IF Lt(r, 0) THEN "Down Year"
    ELSE IF Lt(r, 6) THEN "No Return"
    ELSE "Good Return"

\* The breakdown printed after the categories are built divides by total_years:
\* with no yearly return at all the division raises ZeroDivisionError, which
\* nothing catches, and the function never reaches its return statement.
yearly_outcome(returns) ==
    IF Len(returns) = 0 THEN "ZeroDivisionError" ELSE "returned"

\* The whole call: resampling, returns, categories, and the printed breakdown
\* that either raises or is followed by the return statement.  (The loops that
\* print the first and last five years only write to the console.)
analyze_yearly_returns ==
    /\ pc = "start"
    /\ yearly_data' = resample_YE(data)
    /\ returns_pct' = yearly_returns_pct(yearly_data', fill_method)
    /\ down_years' = down_years_of(returns_pct')
    /\ no_return_years' = no_return_years_of(returns_pct')
    /\ good_return_years' = good_return_years_of(returns_pct')
    /\ pc' = yearly_outcome(returns_pct')
    /\ UNCHANGED <<data, fill_method, return_value, category, mask_category,
                   period, day_index, rolling_return, ticker, result, tickers,
                   calls, results>>

YearlyIdle ==
    /\ yearly_data = <<>>
    /\ returns_pct = <<>>
    /\ down_years = <<>>
    /\ no_return_years = <<>>
    /\ good_return_years = <<>>

CategoryIdle ==
    /\ return_value = None
    /\ category = None
    /\ mask_category = {}

RollingIdle ==
    /\ period = None
    /\ day_index = None
    /\ rolling_return = NaN

StockIdle ==
    /\ ticker = None
    /\ result = None

MainIdle ==
    /\ tickers = <<>>
    /\ calls = <<>>
    /\ results = <<>>

\* A price series spanning one or more years.
InitYearly ==
    /\ data \in Tables(MaxYearRows, YearDates, IndexPrices, TRUE) \ {<<>>}
    /\ fill_method \in FillMethods
    /\ pc = "start"
    /\ YearlyIdle /\ CategoryIdle /\ RollingIdle /\ StockIdle /\ MainIdle

NextYearly == analyze_yearly_returns

SpecYearly == InitYearly /\ [][NextYearly]_vars

Labels(s) == {s[i].label : i \in 1..Len(s)}

Entries(s) == {s[i] : i \in 1..Len(s)}

\* C1: once the categories are built, down_years, no_return_years and
\* good_return_years are pairwise disjoint, every computed yearly return is in
\* exactly one of them, and their lengths sum to len(returns_pct).
C1_CategoriesPartition ==
    pc # "start" =>
        /\ Labels(down_years) \cap Labels(no_return_years) = {}
        /\ Labels(down_years) \cap Labels(good_return_years) = {}
        /\ Labels(no_return_years) \cap Labels(good_return_years) = {}
        /\ Entries(down_years) \cup Entries(no_return_years)
               \cup Entries(good_return_years) = Entries(returns_pct)
        /\ Len(down_years) + Len(no_return_years) + Len(good_return_years)
               = Len(returns_pct)

\* C1 witness: the function returned with a year in each of the three categories.
C1_Witness ==
    /\ pc = "returned"
    /\ Len(down_years) > 0
    /\ Len(no_return_years) > 0
    /\ Len(good_return_years) > 0

YearsPresent == {YearOf(data[i].date) : i \in 1..Len(data)}

\* The year-end close of a year that has trading days.
YearEnd(y) ==
    data[Max({i \in 1..Len(data) : YearOf(data[i].date) = y})].close

\* C4: the resampled series has exactly the years with a trading day; every
\* present year but the first gets (yearend / previous present yearend - 1) * 100,
\* so there are (years present - 1) returns and none for a year without trading
\* days.
C4_ReturnsOverPresentYears ==
    pc # "start" =>
        /\ Len(yearly_data) = Cardinality(YearsPresent)
        /\ Labels(yearly_data) = YearsPresent
        /\ Len(returns_pct) = Cardinality(YearsPresent) - 1
        /\ Labels(returns_pct) = YearsPresent \ {Min(YearsPresent)}
        /\ \A i \in 1..Len(returns_pct) :
              LET y    == returns_pct[i].label
                  prev == Max({x \in YearsPresent : x < y})
              IN  y \in YearsPresent \ {Min(YearsPresent)} =>
                    returns_pct[i].value =
                        <<[num |-> 100 * (YearEnd(y) - YearEnd(prev)),
                           den |-> YearEnd(prev)]>>

\* C10: analyze_yearly_returns on a series of one or more years runs to its
\* return statement.
C10_YearlyAlwaysReturns == pc # "start" => pc = "returned"

----------------------------------------------------------------------------
(* get_return_category and the masks, on one return. *)

\* Numerators of the returns classified.
MaxReturnNum == 70

\* Their denominators: whole percents, tenths, and 1/10000 of a percent.
ReturnDens == {1, 10, 10000}

Categories == {"Down Year", "No Return", "Good Return"}

masks_selecting(r) ==
    {c \in Categories : \/ c = "Down Year" /\ down_mask(r)
                        \/ c = "No Return" /\ no_return_mask(r)
                        \/ c = "Good Return" /\ good_return_mask(r)}

categorize ==
    /\ pc = "start"
    /\ category' = get_return_category(return_value)
    /\ mask_category' = masks_selecting(return_value)
    /\ pc' = "done"
    /\ UNCHANGED <<data, fill_method, yearly_data, returns_pct, down_years,
                   no_return_years, good_return_years, return_value, period,
                   day_index, rolling_return, ticker, result, tickers, calls,
                   results>>

InitCategory ==
    /\ return_value \in [num : (-MaxReturnNum)..MaxReturnNum, den : ReturnDens]
    /\ category = None
    /\ mask_category = {}
    /\ data = <<>>
    /\ fill_method = "pad"
    /\ pc = "start"
    /\ YearlyIdle /\ RollingIdle /\ StockIdle /\ MainIdle

NextCategory == categorize

SpecCategory == InitCategory /\ [][NextCategory]_vars

----------------------------------------------------------------------------
(* sp500_analyzer.py: rolling returns. *)

\* periods = [5, 10, 15, 20]
RollingPeriods == {5, 10, 15, 20}

\* window=period*252
TradingDays == 252

\* A continuous daily series of n days whose close rises by step a day.
DailySeries(n, step) ==
    [i \in 1..n |-> [date |-> i - 1, close |-> 100 + step * (i - 1)]]

\* data['Close'].rolling(window=p*252).apply(lambda x: (x.iloc[-1]/x.iloc[0])**(1/p) - 1)
\* at position t (from 0): NaN until the window holds p*252 observations, then
\* the lambda's value on the window ending at t, given by the two closes it
\* reads and the root it takes.
rolling_apply(tbl, p, t) ==
    LET window == p * TradingDays
    IN  IF t + 1 < window THEN NaN
        ELSE <<[first |-> tbl[(t + 1) - window + 1].close,
                last  |-> tbl[t + 1].close,
                root  |-> p]>>

rolling_at ==
    /\ pc = "start"
    /\ \E p \in RollingPeriods, t \in 0..(Len(data) - 1) :
          /\ period' = p
          /\ day_index' = t
          /\ rolling_return' = rolling_apply(data, p, t)
    /\ pc' = "done"
    /\ UNCHANGED <<data, fill_method, yearly_data, returns_pct, down_years,
                   no_return_years, good_return_years, return_value, category,
                   mask_category, ticker, result, tickers, calls, results>>

InitRolling ==
    /\ \E extra \in 0..MaxExtraDays, step \in {1, 2} :
          data = DailySeries(Max(RollingPeriods) * TradingDays + extra, step)
    /\ fill_method = "pad"
    /\ pc = "start"
    /\ RollingIdle
    /\ YearlyIdle /\ CategoryIdle /\ StockIdle /\ MainIdle

NextRolling == rolling_at

SpecRolling == InitRolling /\ [][NextRolling]_vars

\* C5: for each window N the rolling return is undefined at every index
\* < N*252 and defined at every index >= N*252, where it compares price_t
\* with price_{t-N*252}.
C5_RollingDefinedFromWindow ==
    pc = "done" =>
        LET window == period * TradingDays
        IN  /\ day_index < window => rolling_return = NaN
            /\ day_index >= window =>
                  rolling_return =
                      <<[first |-> data[(day_index - window) + 1].close,
                         last  |-> data[day_index + 1].close,
                         root  |-> period]>>

----------------------------------------------------------------------------
(* stock_analyzer.py: analyze_stock. *)

WeekDates == 0..(NumWeeks * DaysPerWeek - 1)

\* Closes of a stock's table: 2/1 - 1 = 100%, 1/2 - 1 = -50%.
StockPrices == {1, 2}

\* What may go wrong in one call: nothing, an exception in yf.download, an
\* exception while the statistics are computed, an exception while plotting.
Raises == {"none", "download", "compute", "plot"}

\* Mutant of drop_duplicates: keep='first'.
drop_duplicates_keep_first(tbl) ==
    LET keep == {i \in 1..Len(tbl) :
                    \A j \in 1..(i - 1) : tbl[j].date # tbl[i].date}
        RECURSIVE pick(_)
        pick(i) == IF i > Len(tbl) THEN <<>>
                   ELSE IF i \in keep THEN <<tbl[i]>> \o pick(i + 1)
                   ELSE pick(i + 1)
    IN  pick(1)

\* data[~data.index.duplicated(keep='last')]: a row stays unless a later row has
\* its timestamp.
drop_duplicates(tbl) ==
    LET keep == {i \in 1..Len(tbl) :
                    \A j \in (i + 1)..Len(tbl) : tbl[j].date # tbl[i].date}
        RECURSIVE pick(_)
        pick(i) == IF i > Len(tbl) THEN <<>>
                   ELSE IF i \in keep THEN <<tbl[i]>> \o pick(i + 1)
                   ELSE pick(i + 1)
    IN  pick(1)

\* data['Close'].resample('W-FRI').last()
resample_W_FRI(tbl) == ResampleLast(tbl, DaysPerWeek)

\* weekly.pct_change().dropna().to_numpy()
weekly_pct_change_values(weekly, fill) ==
    LET changes == dropna(pct_change(weekly, fill))
    IN  [i \in 1..Len(changes) |-> changes[i].value[1]]

RECURSIVE SumFractions(_)
SumFractions(xs) ==
    IF Len(xs) = 0 THEN [num |-> 0, den |-> 1]
    ELSE LET rest == SumFractions(Tail(xs))
         IN  [num |-> Head(xs).num * rest.den + rest.num * Head(xs).den,
              den |-> Head(xs).den * rest.den]

\* np.mean of a non-empty array of fractions
mean(xs) ==
    LET total == SumFractions(xs)
    IN  [num |-> total.num, den |-> total.den * Len(xs)]

\* round(x, 2) of the fraction x, in hundredths: to the nearest hundredth, a tie
\* to the even one.
round2(x) ==
    LET n == 100 * x.num
        q == n \div x.den
        r == n % x.den
    IN  IF 2 * r < x.den THEN q
        ELSE IF 2 * r > x.den THEN q + 1
        ELSE IF q % 2 = 0 THEN q ELSE q + 1

\* Mutant of up_weeks_of: a week without change counted as an up week.
up_weeks_or_flat(values) == SelectSeq(values, LAMBDA v : v.num >= 0)

\* pct_change_values[pct_change_values > 0]
up_weeks_of(values) == SelectSeq(values, LAMBDA v : v.num > 0)

\* pct_change_values[pct_change_values < 0]
down_weeks_of(values) == SelectSeq(values, LAMBDA v : v.num < 0)

\* round(np.mean(weeks) * 100, 2) if len(weeks) > 0 else 0
average_change(weeks) ==
    IF Len(weeks) > 0
    THEN round2([num |-> 100 * mean(weeks).num, den |-> mean(weeks).den])
    ELSE 0

\* The statistics of a non-empty table (amounts and percents in hundredths).
compute_stats(tk, tbl, fill) ==
    LET deduped == drop_duplicates(tbl)
        weekly == resample_W_FRI(deduped)
        pct_change_values == weekly_pct_change_values(weekly, fill)
        up_weeks == up_weeks_of(pct_change_values)
        down_weeks == down_weeks_of(pct_change_values)
        current_price == deduped[Len(deduped)].close
        initial_price == deduped[1].close
        ytd_change == [num |-> 100 * (current_price - initial_price),
                       den |-> initial_price]
    IN  [Ticker |-> tk,
         TotalWeeks |-> Len(pct_change_values),
         UpWeeks |-> Len(up_weeks),
         DownWeeks |-> Len(down_weeks),
         AverageUpWeekChange |-> average_change(up_weeks),
         AverageDownWeekChange |-> average_change(down_weeks),
         CurrentPrice |-> round2([num |-> current_price, den |-> 1]),
         YTDChange |-> round2(ytd_change)]

\* Mutant of after_plot: a plotting error reaches the outer handler.
after_plot_unhandled(stats, raised) == IF raised THEN None ELSE <<stats>>

\* The plotting block has a handler of its own: whether it raises or not,
\* control reaches 'return stats'.
after_plot(stats, raised) == <<stats>>

\* analyze_stock(ticker, ...) when yf.download returns tbl: None when the download
\* raises, the table is empty or the computation raises; else the statistics.
analyze_stock(tk, tbl, raised, fill) ==
    IF raised = "download" THEN None
    ELSE IF Len(tbl) = 0 THEN None
    ELSE IF raised = "compute" THEN None
    ELSE after_plot(compute_stats(tk, tbl, fill), raised = "plot")

\* One call of analyze_stock in which nothing raises.
analyze_one_stock ==
    /\ pc = "start"
    /\ result' = analyze_stock(ticker, data, "none", fill_method)
    /\ pc' = "done"
    /\ UNCHANGED <<data, fill_method, yearly_data, returns_pct, down_years,
                   no_return_years, good_return_years, return_value, category,
                   mask_category, period, day_index, rolling_return, ticker,
                   tickers, calls, results>>

InitStock ==
    /\ data \in Tables(MaxStockRows, WeekDates, StockPrices, FALSE)
    /\ fill_method \in FillMethods
    /\ ticker = "TSLA"
    /\ result = None
    /\ pc = "start"
    /\ YearlyIdle /\ CategoryIdle /\ RollingIdle /\ MainIdle

NextStock == analyze_one_stock

SpecStock == InitStock /\ [][NextStock]_vars

\* The weekly changes analyze_stock computes from tbl.
WeeklyChanges(tbl, fill) ==
    weekly_pct_change_values(resample_W_FRI(drop_duplicates(tbl)), fill)

IsFlat(tbl) == \A i, j \in 1..Len(tbl) : tbl[i].close = tbl[j].close

\* C6: in a statistics record Up Weeks counts the weekly changes > 0, Down Weeks
\* those < 0, Total Weeks all of them, so Up + Down + zero-change weeks = Total;
\* on a flat series Up Weeks = Down Weeks = 0 and both averages are 0.
C6_WeekCounts ==
    (pc = "done" /\ result # None) =>
        LET stats == result[1]
            changes == WeeklyChanges(data, fill_method)
            up   == {i \in 1..Len(changes) : changes[i].num > 0}
            down == {i \in 1..Len(changes) : changes[i].num < 0}
            zero == {i \in 1..Len(changes) : changes[i].num = 0}
        IN  /\ stats.UpWeeks = Cardinality(up)
            /\ stats.DownWeeks = Cardinality(down)
            /\ stats.TotalWeeks = Len(changes)
            /\ stats.UpWeeks + stats.DownWeeks + Cardinality(zero) = stats.TotalWeeks
            /\ IsFlat(data) =>
                  /\ stats.UpWeeks = 0
                  /\ stats.DownWeeks = 0
                  /\ stats.AverageUpWeekChange = 0
                  /\ stats.AverageDownWeekChange = 0

\* C6 witness: statistics with a zero-change week beside an up week.
C6_Witness ==
    /\ pc = "done"
    /\ result # None
    /\ result[1].TotalWeeks = 2
    /\ result[1].UpWeeks = 1
    /\ result[1].DownWeeks = 0

\* One row per day, closes strictly increasing.
IsRising(tbl) ==
    \A i, j \in 1..Len(tbl) :
        i < j => (tbl[i].date < tbl[j].date /\ tbl[i].close < tbl[j].close)

\* C7: on a non-empty daily series of strictly increasing closes analyze_stock
\* returns Down Weeks = 0, Up Weeks = Total Weeks and Average Down Week Change
\* = 0, also when a week between the first and the last date has no trading day.
C7_RisingSeriesAllUp ==
    (pc = "done" /\ Len(data) > 0 /\ IsRising(data)) =>
        /\ result # None
        /\ result[1].DownWeeks = 0
        /\ result[1].UpWeeks = result[1].TotalWeeks
        /\ result[1].AverageDownWeekChange = 0

Dates(tbl) == {tbl[i].date : i \in 1..Len(tbl)}

\* The last-listed close of a date of the table.
LastListedClose(tbl, d) ==
    tbl[Max({i \in 1..Len(tbl) : tbl[i].date = d})].close

\* One row per date, in date order, holding the date's last-listed close.
LastListed(tbl) ==
    [k \in 1..Cardinality(Dates(tbl)) |->
        LET d == CHOOSE x \in Dates(tbl) :
                    Cardinality({y \in Dates(tbl) : y < x}) = k - 1
        IN  [date |-> d, close |-> LastListedClose(tbl, d)]]

\* C9: with several rows of one timestamp, the statistics are those of the
\* table that keeps the last-listed row of each date: each date contributes one
\* row, and the weekly closes, Current Price and YTD Change come from the
\* last-listed closes.
C9_LastDuplicateKept ==
    (pc = "done" /\ result # None) =>
        LET first == LastListedClose(data, Min(Dates(data)))
            last  == LastListedClose(data, Max(Dates(data)))
        IN  /\ drop_duplicates(data) = LastListed(data)
            /\ result[1] = compute_stats(ticker, LastListed(data), fill_method)
            /\ result[1].TotalWeeks =
                  Len(weekly_pct_change_values(resample_W_FRI(LastListed(data)),
                                               fill_method))
            /\ result[1].CurrentPrice = 100 * last
            /\ result[1].YTDChange =
                  round2([num |-> 100 * (last - first), den |-> first])

\* C9 witness: statistics of a table whose first date is listed twice with
\* different closes.
C9_Witness ==
    /\ pc = "done"
    /\ result # None
    /\ Len(data) = 3
    /\ data[1].date = data[2].date
    /\ data[1].close # data[2].close
    /\ data[3].date > data[2].date
    /\ result[1].YTDChange # 0

----------------------------------------------------------------------------
(* stock_analyzer.py: main. *)

\* tickers = ['TSLA', 'PLTR', 'MSFT']
TickerSymbols == {"TSLA", "PLTR", "MSFT"}

\* The ticker lists: every list of these symbols without repetition.
TickerLists ==
    UNION {{s \in [1..n -> TickerSymbols] : \A i, j \in 1..n : i # j => s[i] # s[j]}
              : n \in 0..Cardinality(TickerSymbols)}

\* What yf.download returns in the batch: no data, a single day, and a flat, a
\* rising and a falling pair of weeks.
MainTables ==
    {<<>>,
     <<[date |-> 0, close |-> 1]>>,
     <<[date |-> 0, close |-> 1], [date |-> DaysPerWeek, close |-> 1]>>,
     <<[date |-> 0, close |-> 1], [date |-> DaysPerWeek, close |-> 2]>>,
     <<[date |-> 0, close |-> 2], [date |-> DaysPerWeek, close |-> 1]>>}

\* Mutant of append_stats: the test for None missing.
append_unchecked(rs, stats) ==
    IF stats # None THEN Append(rs, stats[1]) ELSE Append(rs, None)

\* if stats is not None: results.append(stats)
append_stats(rs, stats) ==
    IF stats # None THEN Append(rs, stats[1]) ELSE rs

\* One iteration of 'for ticker in tickers'.
main_analyze_next ==
    /\ pc = "loop"
    /\ Len(calls) < Len(tickers)
    /\ \E tbl \in MainTables, raised \in Raises :
          LET tk == tickers[Len(calls) + 1]
              stats == analyze_stock(tk, tbl, raised, fill_method)
          IN  /\ calls' = Append(calls, [ticker |-> tk, data |-> tbl,
                                         raised |-> raised, stats |-> stats])
              /\ results' = append_stats(results, stats)
    /\ UNCHANGED <<data, fill_method, pc, yearly_data, returns_pct, down_years,
                   no_return_years, good_return_years, return_value, category,
                   mask_category, period, day_index, rolling_return, ticker,
                   result, tickers>>

\* After the loop: the summary table, or the notice that there is none.
main_summary ==
    /\ pc = "loop"
    /\ Len(calls) = Len(tickers)
    /\ pc' = IF results # <<>> THEN "summary" ELSE "no valid results"
    /\ UNCHANGED <<data, fill_method, yearly_data, returns_pct, down_years,
                   no_return_years, good_return_years, return_value, category,
                   mask_category, period, day_index, rolling_return, ticker,
                   result, tickers, calls, results>>

InitMain ==
    /\ tickers \in TickerLists
    /\ calls = <<>>
    /\ results = <<>>
    /\ fill_method \in FillMethods
    /\ data = <<>>
    /\ pc = "loop"
    /\ YearlyIdle /\ CategoryIdle /\ RollingIdle /\ StockIdle

NextMain == main_analyze_next \/ main_summary

SpecMain == InitMain /\ [][NextMain]_vars

\* The statistics among the calls' return values, in call order.
RECURSIVE Collected(_)
Collected(cs) ==
    IF Len(cs) = 0 THEN <<>>
    ELSE LET before == Collected(SubSeq(cs, 1, Len(cs) - 1))
             stats == cs[Len(cs)].stats
         IN  IF stats = None THEN before ELSE Append(before, stats[1])

\* C3: whatever each call does (statistics, empty data, an exception in the
\* download or the computation), main calls analyze_stock for every ticker in
\* list order and goes on to the summary; empty data gives None; results holds
\* one record for each ticker that produced statistics, in ticker order.
C3_BatchContinues ==
    /\ Len(calls) <= Len(tickers)
    /\ \A i \in 1..Len(calls) : calls[i].ticker = tickers[i]
    /\ pc = "loop" => ENABLED NextMain
    /\ pc # "loop" => Len(calls) = Len(tickers)
    /\ \A i \in 1..Len(calls) :
          /\ Len(calls[i].data) = 0 => calls[i].stats = None
          /\ calls[i].raised \in {"download", "compute"} => calls[i].stats = None
          /\ calls[i].stats # None => calls[i].stats[1].Ticker = tickers[i]
    /\ results = Collected(calls)
    /\ \A k \in 1..Len(results) : results[k] # None

\* C3 witness: the summary is reached after a batch of three in which the first
\* ticker had no data, the second raised and the third produced statistics.
C3_Witness ==
    /\ pc = "summary"
    /\ Len(calls) = 3
    /\ Len(calls[1].data) = 0 /\ calls[1].raised = "none"
    /\ calls[2].raised = "download"
    /\ calls[3].stats # None
    /\ Len(results) = 1

\* C8: when the plotting step raises after the statistics were computed,
\* analyze_stock returns the record it returns when plotting succeeds.
C8_PlotErrorKeepsStats ==
    \A i \in 1..Len(calls) :
        (calls[i].raised = "plot" /\ Len(calls[i].data) > 0) =>
            /\ calls[i].stats # None
            /\ calls[i].stats =
                  <<compute_stats(calls[i].ticker, calls[i].data, fill_method)>>
            /\ calls[i].stats =
                  analyze_stock(calls[i].ticker, calls[i].data, "none", fill_method)

\* C8 witness: a call whose plot raised returned statistics over a full week.
C8_Witness ==
    \E i \in 1..Len(calls) :
        /\ calls[i].raised = "plot"
        /\ calls[i].stats # None
        /\ calls[i].stats[1].TotalWeeks = 1

====
